---- MODULE Spec2Model ----
(***************************************************************************)
(* A model of pygase's connection layer (src/pygase/connection.py): the    *)
(* remote-sequence / ack-bitfield bookkeeping, the pending-ack scan with   *)
(* its event callbacks, the send loop and the receive path of one          *)
(* ServerConnection fed by the server's demultiplexer loop, the congestion *)
(* monitor of the send loop, and the demultiplexer's handling of clients   *)
(* and shutdown datagrams.                                                 *)
(*                                                                         *)
(* Time is the wall clock in whole seconds.  User callbacks are modelled   *)
(* by what they do to the connection: return ("ok") or raise ("raise").    *)
(*                                                                         *)
(* Tasks are curio tasks: a task runs until it suspends (socket I/O, queue *)
(* get/put, sleep, joining or cancelling a task); spawning a task does not *)
(* suspend the spawner.  An action is one run of a task between two        *)
(* suspensions.                                                            *)
(***************************************************************************)
EXTENDS Integers, Sequences, FiniteSets, TLC

\* ------------------------------------------------------------------------
\* Program constants
\* ------------------------------------------------------------------------

\* Largest sequence number (2 bytes); 0 means "nothing sent or received".
SqnMax == 65535

\* Length of Connection.ack_bitfield ("0" * 32).
BitfieldLen == 32

\* The bound of the bitfield test in _recv: 0 < sequence_diff < 32.
AckScanBound == 32

\* Package.timeout, in seconds.
PackageTimeout == 1

\* Connection.timeout, in seconds.
ConnectionTimeout == 5

\* _send_next_package attaches events while len(package.events) < 5.
EventsPerPackage == 5

\* Connection._package_intervals, in milliseconds: 1 / 40 s and 1 / 20 s.
PackageIntervalGood == 25

PackageIntervalBad == 50

\* Connection._latency_threshold, in hundredths of a second.
LatencyThreshold == 25

\* Connection.min_throttle_time and max_throttle_time, in milliseconds (the
\* unit in which every halving of a throttle time above the minimum is exact).
MinThrottleTime == 1000

MaxThrottleTime == 60000

\* Milliseconds per second, the unit of the clock.
MsPerSecond == 1000

\* The monitor sleeps min_throttle_time / 2 between two evaluations: it runs
\* at most this many times within one second.
MonitorRunsPerSecond == 2

\* Package.max_size, in bytes.
MaxSize == 2048

\* Length of a sequence number in a datagram (to_sqn_bytes).
SqnBytes == 2

\* The bytes of Header.to_bytearray: protocol id, sequence, ack, bitfield.
HeaderBytes == 12

\* The bytes of the length that precedes an event or a game state update.
LengthBytes == 2

\* ------------------------------------------------------------------------
\* Bounds of the model
\* ------------------------------------------------------------------------

\* The clock runs from 0 to MaxTime.
MaxTime == 2

\* At most MaxSend packages are sent.
MaxSend == 1

\* At most MaxDispatch events are dispatched.
MaxDispatch == 1

\* The incoming event queue holds at most MaxIncoming events.
MaxIncoming == 1

\* Under SpecRemote: sequences 1..MaxNear, ...
MaxNear == 5

\* ... the MaxFar sequences from BitfieldLen + 1 on, ...
MaxFar == 2

\* ... and the MaxWrap sequences ending at SqnMax.
MaxWrap == 1

\* Under SpecCongestion: the clock runs to MaxCongestionTime and at most
\* MaxCongestionSend packages are sent.
MaxCongestionTime == 3

MaxCongestionSend == 2

\* Under SpecLife: at most MaxLifeSend packages are sent.
MaxLifeSend == 2

\* Under SpecIdle: the clock runs to MaxIdleTime, past the connection timeout.
MaxIdleTime == 7

\* SpecRevival: the clock runs to two connection timeouts and two revivals;
\* the send loops send so many packages and the client so many.
MaxRevivalTime == 12

MaxRevivalSend == 2

MaxRevivalRecv == 3

\* SpecSend: so many events are dispatched, one more than a package takes,
\* and so many packages are sent.
MaxBurst == 6

MaxBurstSend == 2

\* SpecThreads: every thread calls dispatch_event so many times.
MaxCalls == 2

\* Client: packages sent, sequences received, events dispatched, clock.
MaxClientSend == 1
MaxClientRecv == 2
MaxClientDispatch == 2
MaxClientTime == 6

\* SpecUpdates: sequences received.
MaxUpdateRecv == 3

\* SpecPackage: a package takes so many events.
MaxPackageEvents == 3

\* The bytes of Event.to_bytes of a small and of a large event, and of
\* GameStateUpdate.to_bytes of a whole game state and of an update.
SmallEventBytes == 100

LargeEventBytes == 1100

FullStateBytes == 64

UpdateBytes == 16

\* SpecThrottle: the clock runs so far, long enough for the throttle time to
\* double up to its maximum and to halve again.
MaxThrottleClock == 9

VARIABLES
    local_sequence,          \* Connection.local_sequence
    remote_sequence,         \* Connection.remote_sequence
    ack_bitfield,            \* Connection.ack_bitfield, a sequence of 32 bits
    latency,                 \* Connection.latency, an exact decimal fraction
    status,                  \* Connection.status
    last_recv,               \* Connection._last_recv
    pending_acks,            \* Connection._pending_acks, in insertion order
    event_callback_sequence, \* Connection._event_callback_sequence
    events_with_callbacks,   \* Connection._events_with_callbacks
    event_callbacks,         \* Connection._event_callbacks
    outgoing,                \* Connection._outgoing_event_queue
    incoming,                \* Connection._incoming_event_queue
    last_client_time_order,  \* ServerConnection.last_client_time_order
    now,                     \* time.time()
    sendLoops,               \* number of live _send_loop tasks of the connection
    recvLoop,                \* the task that calls _recv: "running" or "crashed"
    outcome,                 \* how the last _recv ended
    dispatched,              \* history: the number of dispatch_event calls
    accepted,                \* history: the sequences _update_remote_info accepted
    ackFired,                \* history: invocations of each id's ack callback
    timeoutFired,            \* history: invocations of each id's timeout callback
    wire,                    \* history: the packages handed to sock.sendto
    quality,                 \* Connection.quality
    package_interval,        \* Connection._package_interval
    state,                   \* the state dict of _congestion_avoidance_monitor
    monitors,                \* number of live _congestion_avoidance_monitor tasks
    monitor_runs,            \* evaluations of the monitor within this second
    host_client,             \* server.host_client
    connections,             \* the keys of server.connections
    payloads,                \* history: the events of each package of wire
    game_state,              \* ClientConnection.game_state_context.ressource
    recv_task,               \* position of _client_recv_loop
    first_read,              \* history: packages sent before the first sock.recv
    send_task,               \* the package of a send loop suspended in _send_next_package
    pkg,                     \* a Package object: its events and its datagram
    callers                  \* threads inside dispatch_event

vars == <<local_sequence, remote_sequence, ack_bitfield, latency, status,
          last_recv, pending_acks, event_callback_sequence,
          events_with_callbacks, event_callbacks, outgoing, incoming,
          last_client_time_order, now, sendLoops, recvLoop, outcome,
          dispatched, accepted, ackFired, timeoutFired, wire, quality,
          package_interval, state, monitors, monitor_runs, host_client,
          connections, payloads, game_state, recv_task, first_read,
          send_task, pkg, callers>>

\* The congestion controller of the connection.
congestion == <<quality, package_interval, state, monitor_runs>>

\* The server's registry of clients.
registry == <<host_client, connections>>

\* What the actions of one server connection's tasks leave alone: the
\* client's side, a package object of its own, threads that dispatch.
aside == <<game_state, recv_task, first_read, send_task, pkg, callers>>

\* ------------------------------------------------------------------------
\* Sqn arithmetic (pygase.utils.Sqn)
\* ------------------------------------------------------------------------

\* Sqn.__add__ with 1: 65535 wraps to 1, never to 0.
SqnInc(a) == IF a + 1 > SqnMax THEN a + 1 - SqnMax ELSE a + 1

\* Sqn.__sub__: the signed difference over the shortest modular distance.
SqnSub(a, b) ==
    LET r == a - b
    IN  IF 2 * r > SqnMax THEN r - SqnMax
        ELSE IF 2 * r < 0 - SqnMax THEN r + SqnMax
        ELSE r

\* ------------------------------------------------------------------------
\* Python strings of "0" and "1" as sequences of 0 and 1
\* ------------------------------------------------------------------------

Max2(a, b) == IF a > b THEN a ELSE b

Min2(a, b) == IF a < b THEN a ELSE b

Zeros(n) == [i \in 1..n |-> 0]

\* s[:k], for k of either sign.
SliceTo(s, k) ==
    IF k < 0 THEN SubSeq(s, 1, Max2(Len(s) + k, 0))
    ELSE SubSeq(s, 1, Min2(k, Len(s)))

\* s[k:], for k >= 0.
SliceFrom(s, k) == SubSeq(s, Min2(k, Len(s)) + 1, Len(s))

\* s.ljust(w, "0"): the padding on the wrong side.
ZFillRight(s, w) == IF Len(s) >= w THEN s ELSE s \o Zeros(w - Len(s))

\* s.zfill(w) on a string of digits.
ZFill(s, w) == IF Len(s) >= w THEN s ELSE Zeros(w - Len(s)) \o s

\* The bitfield whose set bits are at the (1-based) positions in idx.
BitsAt(idx) == [i \in 1..BitfieldLen |-> IF i \in idx THEN 1 ELSE 0]

\* ------------------------------------------------------------------------
\* Connection._update_remote_info
\* ------------------------------------------------------------------------

\* A receiver that takes the sequence of the last package for the newest.
UpdateRemoteInfoLast(rs, bf, received_sequence) ==
    [remote_sequence |-> received_sequence,
     ack_bitfield |-> bf,
     error |-> IF rs = received_sequence THEN "DuplicateSequenceError"
               ELSE "none"]

UpdateRemoteInfo(rs, bf, received_sequence) ==
    IF rs = 0
    THEN [remote_sequence |-> received_sequence, ack_bitfield |-> bf,
          error |-> "none"]
    ELSE
      LET sequence_diff == SqnSub(rs, received_sequence)
      IN  IF sequence_diff < 0
          THEN [remote_sequence |-> received_sequence,
                ack_bitfield |->
                    IF sequence_diff = -1
                    THEN <<1>> \o SliceTo(bf, -1)
                    ELSE ZFill(SliceTo(bf, sequence_diff), BitfieldLen),
                error |-> "none"]
          ELSE IF sequence_diff = 0
          THEN [remote_sequence |-> rs, ack_bitfield |-> bf,
                error |-> "DuplicateSequenceError"]
          ELSE IF sequence_diff - 1 >= Len(bf)
          THEN [remote_sequence |-> rs, ack_bitfield |-> bf,
                error |-> "IndexError"]
          ELSE IF bf[sequence_diff] = 1
          THEN [remote_sequence |-> rs, ack_bitfield |-> bf,
                error |-> "DuplicateSequenceError"]
          ELSE [remote_sequence |-> rs,
                ack_bitfield |-> SliceTo(bf, sequence_diff - 1) \o <<1>>
                                 \o SliceFrom(bf, sequence_diff),
                error |-> "none"]

\* ------------------------------------------------------------------------
\* Package: events and datagram
\* ------------------------------------------------------------------------

\* A datagram is a sequence of fields; a field has a kind, a value and a
\* number of bytes.
Field(kind, value, bytes) == [field |-> kind, value |-> value, bytes |-> bytes]

\* len(datagram)
RECURSIVE ByteSize(_)
ByteSize(datagram) ==
    IF datagram = <<>> THEN 0
    ELSE Head(datagram).bytes + ByteSize(Tail(datagram))

\* len(bytepack).to_bytes(2, "big") + bytepack, for the bytepack of one
\* event.
EventBytes(event) ==
    <<Field("length", event.size, LengthBytes),
      Field("event", event.event, event.size)>>

\* Package._create_event_block
RECURSIVE CreateEventBlock(_)
CreateEventBlock(events) ==
    IF events = <<>> THEN <<>>
    ELSE EventBytes(Head(events)) \o CreateEventBlock(Tail(events))

\* Header.to_bytearray; a header is given by its sequence.
HeaderToBytearray(header) == <<Field("header", header, HeaderBytes)>>

\* Package.__init__: no datagram is cached.
NewPackage(header, events) ==
    [header |-> header, events |-> events, datagram |-> <<>>,
     cached |-> FALSE]

\* Package.to_datagram: the package after the call, and what it raised.
ToDatagram(p) ==
    IF p.cached THEN [package |-> p, error |-> "none"]
    ELSE LET datagram == HeaderToBytearray(p.header)
                             \o CreateEventBlock(p.events)
         IN  IF ByteSize(datagram) > MaxSize
             THEN [package |-> p, error |-> "OverflowError"]
             ELSE [package |-> [p EXCEPT !.datagram = datagram,
                                         !.cached = TRUE],
                   error |-> "none"]

\* An add_event that appends to the event list before it looks at the size.
AddEventFirst(p, event) ==
    IF p.cached /\ ByteSize(p.datagram) + event.size + LengthBytes > MaxSize
    THEN [package |-> [p EXCEPT !.events = Append(@, event)],
          error |-> "OverflowError"]
    ELSE [package |-> [p EXCEPT !.events = Append(@, event),
                                !.datagram = IF p.cached
                                             THEN @ \o EventBytes(event)
                                             ELSE @],
          error |-> "none"]

\* Package.add_event: the package after the call, and what it raised.
AddEvent(p, event) ==
    IF p.cached
    THEN IF ByteSize(p.datagram) + event.size + LengthBytes > MaxSize
         THEN [package |-> p, error |-> "OverflowError"]
         ELSE [package |-> [p EXCEPT !.datagram = @ \o EventBytes(event),
                                     !.events = Append(@, event)],
               error |-> "none"]
    ELSE [package |-> [p EXCEPT !.events = Append(@, event)],
          error |-> "none"]

\* The bytes of GameStateUpdate.to_bytes.
StateUpdateBytes(update) ==
    IF update = "full" THEN FullStateBytes ELSE UpdateBytes

\* The datagram ServerPackage.to_datagram builds: header, game state update
\* behind its length, event block.
ServerDatagram(header, update, events) ==
    HeaderToBytearray(header)
        \o <<Field("length", StateUpdateBytes(update), LengthBytes),
             Field("update", StateUpdateBytes(update),
                   StateUpdateBytes(update))>>
        \o CreateEventBlock(events)

\* ------------------------------------------------------------------------
\* Python dicts
\* ------------------------------------------------------------------------

\* d[k] = v on a dict modelled as a function.
MapPut(f, k, v) == [x \in (DOMAIN f) \cup {k} |-> IF x = k THEN v ELSE f[x]]

\* del d[k].
MapDel(f, k) == [x \in (DOMAIN f) \ {k} |-> f[x]]

\* _pending_acks keeps its insertion order: a sequence of [seq, time].
PendingKeys(p) == [i \in 1..Len(p) |-> p[i].seq]

PendingHas(p, k) == \E i \in 1..Len(p) : p[i].seq = k

PendingTime(p, k) == (CHOOSE e \in {p[i] : i \in 1..Len(p)} : e.seq = k).time

\* del self._pending_acks[k]
PendingDel(p, k) == SelectSeq(p, LAMBDA e : e.seq # k)

\* self._pending_acks[k] = t: a present key keeps its place.
PendingPut(p, k, t) ==
    IF PendingHas(p, k)
    THEN [i \in 1..Len(p) |-> IF p[i].seq = k THEN [seq |-> k, time |-> t]
                                            ELSE p[i]]
    ELSE Append(p, [seq |-> k, time |-> t])

\* ------------------------------------------------------------------------
\* Connection._update_latency, on exact decimal fractions num / 10^exp
\* ------------------------------------------------------------------------

RECURSIVE Pow10(_)
Pow10(n) == IF n = 0 THEN 1 ELSE 10 * Pow10(n - 1)

RECURSIVE Normalise(_)
Normalise(l) ==
    IF l.exp > 0 /\ l.num % 10 = 0
    THEN Normalise([num |-> l.num \div 10, exp |-> l.exp - 1])
    ELSE l

\* latency += 0.1 * (rtt - latency)
UpdateLatency(l, rtt) ==
    Normalise([num |-> 10 * l.num + (rtt * Pow10(l.exp) - l.num),
               exp |-> l.exp + 1])

\* ------------------------------------------------------------------------
\* Connection._throttling_state_machine
\* ------------------------------------------------------------------------

\* self.latency > self._latency_threshold, and self.latency < it.
AboveThreshold(l) == l.num * 100 > LatencyThreshold * Pow10(l.exp)

BelowThreshold(l) == l.num * 100 < LatencyThreshold * Pow10(l.exp)

\* The state dict _congestion_avoidance_monitor starts with at time t.
FreshState(t) ==
    [throttle_time |-> MinThrottleTime,
     last_quality_change |-> t,
     last_good_quality_milestone |-> t]

\* A switch to bad mode that doubles the throttle time whatever the time
\* since the last quality change.
SwitchToBadAlways(st, t) ==
    [quality |-> "bad",
     package_interval |-> PackageIntervalBad,
     state |-> [st EXCEPT
                  !.throttle_time = Min2(@ * 2, MaxThrottleTime),
                  !.last_quality_change = t]]

\* quality good, latency above the threshold: switch to bad mode.
SwitchToBad(st, t) ==
    [quality |-> "bad",
     package_interval |-> PackageIntervalBad,
     state |-> [st EXCEPT
                  !.throttle_time =
                      IF (t - st.last_quality_change) * MsPerSecond < @
                      THEN Min2(@ * 2, MaxThrottleTime)
                      ELSE @,
                  !.last_quality_change = t]]

\* A milestone that halves the throttle time below its minimum.
GoodMilestoneNoFloor(st, t) ==
    [quality |-> "good",
     package_interval |-> PackageIntervalGood,
     state |-> [st EXCEPT
                  !.throttle_time = @ \div 2,
                  !.last_good_quality_milestone = t]]

\* quality good, latency not above the threshold, and more than the throttle
\* time since the last milestone.
GoodMilestone(st, t) ==
    [quality |-> "good",
     package_interval |-> PackageIntervalGood,
     state |-> [st EXCEPT
                  !.throttle_time = Max2(@ \div 2, MinThrottleTime),
                  !.last_good_quality_milestone = t]]

\* A switch to good mode that takes the good interval at once.
SwitchToGoodEager(interval, st, t) ==
    [quality |-> "good",
     package_interval |-> PackageIntervalGood,
     state |-> [st EXCEPT
                  !.last_quality_change = t,
                  !.last_good_quality_milestone = t]]

\* quality bad, latency below the threshold: switch to good mode.
SwitchToGood(interval, st, t) ==
    [quality |-> "good",
     package_interval |-> interval,
     state |-> [st EXCEPT
                  !.last_quality_change = t,
                  !.last_good_quality_milestone = t]]

\* _throttling_state_machine(t, state) on a connection of quality q, package
\* interval `interval` and latency l: the new quality, interval and state.
ThrottlingStateMachine(q, interval, l, t, st) ==
    IF q = "good"
    THEN IF AboveThreshold(l) THEN SwitchToBad(st, t)
         ELSE IF (t - st.last_good_quality_milestone) * MsPerSecond
                     > st.throttle_time
         THEN GoodMilestone(st, t)
         ELSE [quality |-> q, package_interval |-> interval, state |-> st]
    ELSE IF BelowThreshold(l) THEN SwitchToGood(interval, st, t)
         ELSE [quality |-> q, package_interval |-> interval, state |-> st]

\* ------------------------------------------------------------------------
\* Connection._recv: the scan of the pending acks
\* ------------------------------------------------------------------------

\* One callback of one event: invoke it if it is given, then forget the id.
\* kind is "ack" or "timeout"; st is the connection's state during the scan.
InvokeCallback(st, event_sequence, kind) ==
    IF event_sequence \notin DOMAIN st.event_callbacks
    THEN [st EXCEPT !.error = "KeyError"]
    ELSE
      LET cb == st.event_callbacks[event_sequence][kind]
          called == IF kind = "ack"
                    THEN [st EXCEPT !.ackFired[event_sequence] = @ + 1]
                    ELSE [st EXCEPT !.timeoutFired[event_sequence] = @ + 1]
      IN  IF cb = "none" THEN st
          ELSE IF cb = "raise" THEN [called EXCEPT !.error = "CallbackError"]
          ELSE [called EXCEPT !.event_callbacks =
                                  MapDel(@, event_sequence)]

\* for event_sequence in self._events_with_callbacks[pending_sequence]: ...
RECURSIVE InvokeCallbacks(_, _, _)
InvokeCallbacks(st, ids, kind) ==
    IF ids = <<>> \/ st.error # "none" THEN st
    ELSE InvokeCallbacks(InvokeCallback(st, Head(ids), kind), Tail(ids), kind)

\* The body shared by the two branches: the callbacks of the package, then
\* del _events_with_callbacks[p] and del _pending_acks[p].
ResolvePending(st, pending_sequence, kind) ==
    LET has == pending_sequence \in DOMAIN st.events_with_callbacks
        st1 == IF has
               THEN InvokeCallbacks(st,
                        st.events_with_callbacks[pending_sequence], kind)
               ELSE st
    IN  IF st1.error # "none" THEN st1
        ELSE [st1 EXCEPT
                !.events_with_callbacks =
                    IF has THEN MapDel(@, pending_sequence) ELSE @,
                !.pending_acks = PendingDel(@, pending_sequence)]

\* Whether header (ack, ack_bitfield) acknowledges pending_sequence.
IsAcked(ack, bits, pending_sequence) ==
    LET sequence_diff == SqnSub(ack, pending_sequence)
    IN  \/ sequence_diff = 0
        \/ /\ 0 < sequence_diff
           /\ sequence_diff < AckScanBound
           /\ bits[sequence_diff] = 1

\* One iteration of "for pending_sequence in list(self._pending_acks)".
ScanStep(st, pending_sequence, ack, bits, t) ==
    LET sent == PendingTime(st.pending_acks, pending_sequence)
    IN  IF IsAcked(ack, bits, pending_sequence)
        THEN ResolvePending(
                 [st EXCEPT !.latency = UpdateLatency(@, t - sent)],
                 pending_sequence, "ack")
        ELSE IF t - sent > PackageTimeout
        THEN ResolvePending(st, pending_sequence, "timeout")
        ELSE st

RECURSIVE ScanPending(_, _, _, _, _)
ScanPending(st, keys, ack, bits, t) ==
    IF keys = <<>> \/ st.error # "none" THEN st
    ELSE ScanPending(ScanStep(st, Head(keys), ack, bits, t), Tail(keys),
                     ack, bits, t)

\* ------------------------------------------------------------------------
\* Inputs
\* ------------------------------------------------------------------------

\* What a user callback is: not given ("none"), a function that returns
\* ("ok") or one that raises ("raise").  The (ack_callback, timeout_callback)
\* pairs events are dispatched with.
CallbackInputs ==
    { <<"none", "none">>, <<"ok", "none">>, <<"none", "ok">>, <<"ok", "ok">>,
      <<"raise", "raise">> }

\* The (ack, ack_bitfield) pairs of received headers under Spec: no ack; the
\* ack of a sequence this side may have sent, alone or with the sequence
\* before it; and the ack that puts sequence 1 at the far end of the bitfield.
HeaderInputs ==
    {<<0, BitsAt({})>>, <<1 + BitfieldLen, BitsAt({BitfieldLen})>>}
    \cup {<<a, BitsAt({})>> : a \in 1..MaxSend}
    \cup {<<a, BitsAt({1})>> : a \in 2..MaxSend}

\* The packages the demultiplexer hands to _recv under Spec: two sequences
\* (so that one may arrive twice), no events.
PackageInputs ==
    {[sequence |-> s, ack |-> h[1], ack_bitfield |-> h[2], time_order |-> 0,
      events |-> <<>>] : s \in {1, 2}, h \in HeaderInputs}

\* The sequences of received packages under SpecRemote: the first ones, the
\* ones a bitfield length and more after them, the last ones before the wrap.
SeqInputs == (1..MaxNear)
             \cup {BitfieldLen + k : k \in 1..MaxFar}
             \cup {SqnMax - k : k \in 0..(MaxWrap - 1)}

\* The packages under SpecRemote: the peer acknowledges nothing (nothing is
\* sent to it) and sends no events.
RemotePackageInputs ==
    {[sequence |-> s, ack |-> 0, ack_bitfield |-> BitsAt({}), time_order |-> 0,
      events |-> <<>>] : s \in SeqInputs}

\* The packages under SpecEvents: two sequences, a time order, and at most
\* one event.
EventPackageInputs ==
    {[sequence |-> s, ack |-> 0, ack_bitfield |-> BitsAt({}), time_order |-> t,
      events |-> e] : s \in {1, 2}, t \in {0, 1}, e \in {<<>>, <<"event">>}}

\* The sequences of received packages under SpecLife and SpecIdle: the
\* first two and the last one before the wrap.
LifeSeqInputs == {1, 2, SqnMax}

\* The packages under SpecLife and SpecIdle: they acknowledge nothing or the
\* newest package sent, and bring no events.
LifePackageInputs ==
    {[sequence |-> s, ack |-> a, ack_bitfield |-> BitsAt({}), time_order |-> 0,
      events |-> <<>>] : s \in LifeSeqInputs, a \in {0, local_sequence}}

\* The packages under SpecServer: two sequences, the time order of a client
\* without a game state (0) and of one with a game state, no events.
ServerPackageInputs ==
    {[sequence |-> s, ack |-> 0, ack_bitfield |-> BitsAt({}), time_order |-> t,
      events |-> <<>>] : s \in {1, 2}, t \in {0, 1}}

\* The packages under SpecRevival: the next one of a client that sends in
\* order without events or acknowledgements, and the last one once more.
RevivalPackageInputs ==
    {[sequence |-> s, ack |-> 0, ack_bitfield |-> BitsAt({}), time_order |-> 0,
      events |-> <<>>] :
         s \in {SqnInc(remote_sequence), remote_sequence}
                   \cap (1..MaxRevivalRecv)}

\* The latencies under SpecThrottle: below, at and above the threshold of
\* 0.25 s.
LatencyInputs ==
    {[num |-> 2, exp |-> 1], [num |-> 25, exp |-> 2], [num |-> 3, exp |-> 1]}

\* The steps of the clock under SpecThrottle, in seconds: the monitor may
\* come late.
ClockStepInputs == {1, 4}

\* The threads that call dispatch_event from outside the scheduler.
Threads == {"thread1", "thread2"}

\* A thread that is not inside dispatch_event and has not called it.
NoCall == [pc |-> "idle", loaded |-> 0, callback_sequence |-> 0, calls |-> 0]

\* The event a thread dispatches, and the callbacks it gives with it.
ThreadEvent(t) == IF t = "thread1" THEN 1 ELSE 2

ThreadCallbacks(t) ==
    IF t = "thread1" THEN [ack |-> "ok", timeout |-> "none"]
    ELSE [ack |-> "none", timeout |-> "ok"]

\* first_read of a receive loop that has not called sock.recv.
NoRead == 0 - 1

\* The events under SpecSend, given by their bytes, and the callbacks they
\* are dispatched with.
EventSizeInputs == {SmallEventBytes, LargeEventBytes}

BurstCallbackInputs == { <<"none", "none">>, <<"ok", "ok">> }

\* The events under SpecPackage: two events of each size, and of the size
\* that fills a datagram to its last byte.
PackageEventInputs ==
    {[event |-> e, size |-> s] :
         e \in {1, 2},
         s \in EventSizeInputs \cup {MaxSize - HeaderBytes - LengthBytes}}

\* The texts of datagrams that are no PyGaSe package.
TextInputs == {"shutdown", "shut_me_down", "other"}

\* The package under SpecCongestion: the peer's next package, which
\* acknowledges the newest package sent if that one is still pending.
AckPackageInputs ==
    IF PendingHas(pending_acks, local_sequence)
    THEN {[sequence |-> SqnInc(remote_sequence), ack |-> local_sequence,
           ack_bitfield |-> BitsAt({}), time_order |-> 0, events |-> <<>>]}
    ELSE {}

\* The client whose ServerConnection the model follows field by field, and
\* a second client, followed through its key in server.connections alone.
Client == "client1"

OtherClient == "client2"

ClientAddresses == {Client, OtherClient}

\* server.host_client before any client connected.
NoClient == "None"

\* ------------------------------------------------------------------------
\* Initial state: ServerConnection.__init__ and the spawn of its send loop
\* ------------------------------------------------------------------------

\* The fields and tasks that are the same at the start of every
\* specification.
Constructed ==
    /\ last_recv = 0
    /\ pending_acks = <<>>
    /\ event_callback_sequence = 0
    /\ events_with_callbacks = <<>>
    /\ event_callbacks = <<>>
    /\ outgoing = <<>>
    /\ incoming = <<>>
    /\ last_client_time_order = 0
    /\ now = 0
    /\ recvLoop = "running"
    /\ outcome = "none"
    /\ dispatched = 0
    /\ ackFired = [i \in 1..MaxDispatch |-> 0]
    /\ timeoutFired = [i \in 1..MaxDispatch |-> 0]
    /\ wire = <<>>
    /\ monitor_runs = 0
    /\ payloads = <<>>
    /\ game_state = [time_order |-> 0, data |-> 0]
    /\ recv_task = "waiting"
    /\ first_read = NoRead
    /\ send_task = <<>>
    /\ pkg = NewPackage(1, <<>>)
    /\ callers = [t \in Threads |-> NoCall]

\* The congestion controller of a connection whose send loop is spawned and
\* has not run yet: no monitor, no state dict.
FreshController ==
    /\ quality = "good"
    /\ package_interval = PackageIntervalGood
    /\ state = <<>>
    /\ monitors = 0

\* A connection that has neither sent nor received.
Untouched ==
    /\ local_sequence = 0
    /\ remote_sequence = 0
    /\ ack_bitfield = Zeros(BitfieldLen)
    /\ status = "Connecting"
    /\ accepted = {}

\* The connection of the host client, just created by the demultiplexer:
\* its send loop is spawned and has not run yet.
Init ==
    /\ Constructed
    /\ FreshController
    /\ Untouched
    /\ latency = [num |-> 0, exp |-> 0]
    /\ sendLoops = 1
    /\ host_client = Client
    /\ connections = {Client}

\* The connection late in its life, revived after a timeout: it has sent
\* SqnMax - 1 packages, the datagram that revived it (a jump of more than
\* BitfieldLen sequences) is handled, and the new send loop is spawned and
\* has not run yet.
InitRevived ==
    /\ Constructed
    /\ FreshController
    /\ local_sequence = SqnMax - 1
    /\ remote_sequence = SqnMax - 1
    /\ ack_bitfield = Zeros(BitfieldLen)
    /\ status = "Connected"
    /\ accepted = {SqnMax - 1}
    /\ latency = [num |-> 0, exp |-> 0]
    /\ sendLoops = 1
    /\ host_client = Client
    /\ connections = {Client}

\* A connection whose peer has sent BitfieldLen + 1 packages in order and
\* acknowledged as many.
Established ==
    /\ Constructed
    /\ local_sequence = BitfieldLen + 1
    /\ remote_sequence = BitfieldLen + 1
    /\ ack_bitfield = BitsAt(1..BitfieldLen)
    /\ status = "Connected"
    /\ accepted = 1..(BitfieldLen + 1)
    /\ sendLoops = 1
    /\ host_client = Client
    /\ connections = {Client}

\* The states SpecCongestion starts in:
\*  - a fresh connection;
\*  - a connection just revived by a package that acknowledged a package
\*    sent three seconds before: the latency is 0.3, the new send loop and
\*    its monitor have not run yet;
\*  - a connection whose monitor has just switched to good (both times are
\*    now) after five doublings of the throttle time, the latency at 0.2;
\*  - a connection whose monitor has just switched to bad and doubled the
\*    throttle time once, the latency having fallen to 0.2 since.
InitCongestion ==
    \/ Init
    \/ /\ Established
       /\ FreshController
       /\ latency = [num |-> 3, exp |-> 1]
    \/ /\ Established
       /\ latency = [num |-> 2, exp |-> 1]
       /\ quality = "good"
       /\ package_interval = PackageIntervalBad
       /\ state = <<[FreshState(0) EXCEPT
                        !.throttle_time = 32 * MinThrottleTime]>>
       /\ monitors = 1
    \/ /\ Established
       /\ latency = [num |-> 2, exp |-> 1]
       /\ quality = "bad"
       /\ package_interval = PackageIntervalBad
       /\ state = <<[FreshState(0) EXCEPT
                        !.throttle_time = 2 * MinThrottleTime]>>
       /\ monitors = 1

\* A server that no client has reached: no connection, no host client.  The
\* fields of the connection of Client are the ones its constructor will set.
InitServer ==
    /\ Constructed
    /\ FreshController
    /\ Untouched
    /\ latency = [num |-> 0, exp |-> 0]
    /\ sendLoops = 0
    /\ host_client = NoClient
    /\ connections = {}

\* A fresh connection whose send loop has spawned its monitor.
InitThrottle ==
    /\ Constructed
    /\ Untouched
    /\ quality = "good"
    /\ package_interval = PackageIntervalGood
    /\ state = <<>>
    /\ monitors = 1
    /\ latency = [num |-> 0, exp |-> 0]
    /\ sendLoops = 1
    /\ host_client = Client
    /\ connections = {Client}

InitLife == Init \/ InitRevived

\* ------------------------------------------------------------------------
\* Connection.dispatch_event
\* ------------------------------------------------------------------------

\* dispatch_event of an event of so many bytes.
DispatchEvent(event, ack_callback, timeout_callback) ==
    /\ dispatched' = dispatched + 1
    /\ IF ack_callback # "none" \/ timeout_callback # "none"
       THEN /\ event_callback_sequence' = SqnInc(event_callback_sequence)
            /\ event_callbacks' =
                   MapPut(event_callbacks, event_callback_sequence',
                          [ack |-> ack_callback, timeout |-> timeout_callback])
            /\ outgoing' = Append(outgoing,
                                  [event |-> dispatched', size |-> event,
                                   callback_sequence |-> event_callback_sequence'])
       ELSE /\ outgoing' = Append(outgoing,
                                  [event |-> dispatched', size |-> event,
                                   callback_sequence |-> 0])
            /\ UNCHANGED <<event_callback_sequence, event_callbacks>>
    /\ UNCHANGED <<local_sequence, remote_sequence, ack_bitfield, latency,
                   status, last_recv, pending_acks, events_with_callbacks,
                   incoming, last_client_time_order, now, sendLoops, recvLoop,
                   outcome, accepted, ackFired, timeoutFired, wire, monitors,
                   congestion, registry,
                   payloads, aside>>

Dispatch ==
    /\ dispatched < MaxDispatch
    /\ \E cb \in CallbackInputs : DispatchEvent(SmallEventBytes, cb[1], cb[2])

\* ------------------------------------------------------------------------
\* Connection._send_loop and Connection._send_next_package
\* ------------------------------------------------------------------------

\* The callback ids of the drained events, in order, zeros left out.
CallbackIds(entries) ==
    LET withCb == SelectSeq(entries, LAMBDA e : e.callback_sequence # 0)
    IN  [i \in 1..Len(withCb) |-> withCb[i].callback_sequence]

\* A package whose header is built before local_sequence is incremented.
CreateNextPackageStale(sequence) ==
    [sequence |-> local_sequence,
     ack |-> remote_sequence,
     ack_bitfield |-> ack_bitfield,
     game_state_update |-> IF last_client_time_order = 0 THEN "full"
                           ELSE "since_client_time_order"]

\* ServerConnection._create_next_package, with the sequence just incremented:
\* the header, and the whole game state if the client has none yet.
CreateNextPackage(sequence) ==
    [sequence |-> sequence,
     ack |-> remote_sequence,
     ack_bitfield |-> ack_bitfield,
     game_state_update |-> IF last_client_time_order = 0 THEN "full"
                           ELSE "since_client_time_order"]

\* The events the next package takes from the outgoing queue.
DrainedEvents == SubSeq(outgoing, 1, Min2(EventsPerPackage, Len(outgoing)))

\* Whether package.to_datagram() of the next package raises OverflowError.
SendOverflows ==
    LET seq == SqnInc(local_sequence)
    IN  ByteSize(ServerDatagram(seq, CreateNextPackage(seq).game_state_update,
                                DrainedEvents)) > MaxSize

\* _send_next_package.  The events are added to a package that has no
\* datagram yet, so add_event takes every one of them; to_datagram raises
\* OverflowError before sock.sendto if the datagram is too long, and then
\* neither the package is sent nor its sequence is put in _pending_acks.
SendNextPackage ==
    LET seq == SqnInc(local_sequence)
        ids == CallbackIds(DrainedEvents)
        old == IF seq \in DOMAIN events_with_callbacks
               THEN events_with_callbacks[seq] ELSE <<>>
    IN  /\ local_sequence' = seq
        /\ outgoing' = SubSeq(outgoing, Len(DrainedEvents) + 1, Len(outgoing))
        /\ events_with_callbacks' =
               IF ids = <<>> THEN events_with_callbacks
               ELSE MapPut(events_with_callbacks, seq, old \o ids)
        /\ IF SendOverflows
           THEN UNCHANGED <<wire, payloads, pending_acks>>
           ELSE /\ wire' = Append(wire, CreateNextPackage(seq))
                /\ payloads' = Append(payloads, DrainedEvents)
                /\ pending_acks' = PendingPut(pending_acks, seq, now)

\* A send loop that never takes its peer for lost.
TimedOutNever == FALSE

\* t0 - self._last_recv > self.timeout
TimedOut == now - last_recv > ConnectionTimeout

\* One iteration of the while loop of _send_loop, of a loop that sends at
\* most limit packages.  The first iteration of a loop follows the spawn of
\* its congestion monitor without a suspension between them; a loop whose
\* monitor is not spawned yet is in its first iteration.  An OverflowError
\* of _send_next_package ends the task of the loop where it is raised.
SendLoop(limit) ==
    /\ sendLoops > 0
    /\ LET spawned == IF monitors < sendLoops THEN monitors + 1 ELSE monitors
       IN  IF TimedOut
           THEN /\ status' = "Disconnected"
                /\ sendLoops' = sendLoops - 1
                /\ monitors' = spawned - 1
                /\ UNCHANGED <<local_sequence, outgoing,
                               events_with_callbacks, pending_acks, wire,
                               payloads>>
           ELSE /\ Len(wire) < limit
                /\ SendNextPackage
                /\ monitors' = spawned
                /\ sendLoops' = IF SendOverflows THEN sendLoops - 1
                                ELSE sendLoops
                /\ UNCHANGED status
    /\ state' = IF monitors < sendLoops THEN <<>> ELSE state
    /\ UNCHANGED <<remote_sequence, ack_bitfield, latency, last_recv,
                   event_callback_sequence, event_callbacks, incoming,
                   last_client_time_order, now, recvLoop, outcome, dispatched,
                   accepted, ackFired, timeoutFired, quality,
                   package_interval, monitor_runs, registry, aside>>

SendLoopIteration == SendLoop(MaxSend)

\* ------------------------------------------------------------------------
\* ServerConnection._recv, as called by the loop of ServerConnection.loop
\* ------------------------------------------------------------------------

\* The state the scan of the pending acks works on.
ScanState ==
    [pending_acks |-> pending_acks,
     events_with_callbacks |-> events_with_callbacks,
     event_callbacks |-> event_callbacks,
     latency |-> latency,
     ackFired |-> ackFired,
     timeoutFired |-> timeoutFired,
     error |-> "none"]

\* A loop that would swallow every exception of _recv and go on.
LoopAfterCatchAll(error) == "running"

\* The receiving task after _recv returned or raised: the loop catches
\* ProtocolIDMismatchError alone, so any exception of _recv ends the task.
LoopAfter(error) == IF error = "none" THEN "running" ELSE "crashed"

\* Connection._recv.
ConnectionRecv(package) ==
    /\ Len(incoming) + Len(package.events) <= MaxIncoming
    /\ last_recv' = now
    /\ status' = "Connected"
    /\ LET u == UpdateRemoteInfo(remote_sequence, ack_bitfield,
                                 package.sequence)
           st == ScanPending(ScanState, PendingKeys(pending_acks),
                             package.ack, package.ack_bitfield, now)
       IN  /\ remote_sequence' = u.remote_sequence
           /\ ack_bitfield' = u.ack_bitfield
           /\ IF u.error # "none"
              THEN /\ outcome' = u.error
                   /\ recvLoop' = LoopAfter(u.error)
                   /\ UNCHANGED <<pending_acks, events_with_callbacks,
                                  event_callbacks, latency, ackFired,
                                  timeoutFired, incoming, accepted>>
              ELSE /\ accepted' = accepted \cup {package.sequence}
                   /\ pending_acks' = st.pending_acks
                   /\ events_with_callbacks' = st.events_with_callbacks
                   /\ event_callbacks' = st.event_callbacks
                   /\ latency' = st.latency
                   /\ ackFired' = st.ackFired
                   /\ timeoutFired' = st.timeoutFired
                   /\ recvLoop' = LoopAfter(st.error)
                   /\ IF st.error # "none"
                      THEN /\ outcome' = st.error
                           /\ UNCHANGED incoming
                      ELSE /\ outcome' = "ok"
                           /\ incoming' = incoming \o package.events
    /\ UNCHANGED <<local_sequence, event_callback_sequence, outgoing, now,
                   dispatched, wire, monitors, congestion, payloads>>

\* ServerConnection._recv on the connection of Client: Connection._recv,
\* then the time order of the package if that has returned.
RecvPackage(package) ==
    /\ ConnectionRecv(package)
    /\ last_client_time_order' = IF outcome' = "ok" THEN package.time_order
                                 ELSE last_client_time_order
    /\ UNCHANGED aside

\* A demultiplexer that never respawns a send loop.
IsDisconnectedNever(connection_status) == FALSE

\* Whether the demultiplexer revives the connection of a known client.
IsDisconnected(connection_status) == connection_status = "Disconnected"

\* One datagram of the known client that parses as a ClientPackage: the
\* revival of a disconnected connection, then _recv.
Recv(package) ==
    /\ recvLoop = "running"
    /\ Client \in connections
    /\ sendLoops' = IF IsDisconnected(status) THEN sendLoops + 1
                    ELSE sendLoops
    /\ RecvPackage(package)
    /\ UNCHANGED registry

\* A demultiplexer that takes every client for a new one.
IsUnknownAlways(client_address) == TRUE

\* if not client_address in server.connections
IsUnknown(client_address) == client_address \notin connections

\* One datagram that parses as a ClientPackage, of a client that is not in
\* server.connections: the connection is created, its send loop is spawned,
\* the first client becomes the host client, then _recv.
Connect(client_address, package) ==
    /\ recvLoop = "running"
    /\ IsUnknown(client_address)
    /\ connections' = connections \cup {client_address}
    /\ host_client' = IF host_client = NoClient THEN client_address
                      ELSE host_client
    /\ IF client_address = Client
       THEN /\ sendLoops' = sendLoops + 1
            /\ RecvPackage(package)
       ELSE /\ outcome' = "ok"
            /\ UNCHANGED <<local_sequence, remote_sequence, ack_bitfield,
                           latency, status, last_recv, pending_acks,
                           event_callback_sequence, events_with_callbacks,
                           event_callbacks, outgoing, incoming,
                           last_client_time_order, now, sendLoops, recvLoop,
                           dispatched, accepted, ackFired, timeoutFired,
                           wire, monitors, congestion, payloads,
                           aside>>

\* A loop that takes the text "shutdown" from any client.
IsShutdownAnyone(text, client_address) ==
    text \in {"shutdown", "shut_me_down"}

\* Whether the second try block of the loop ends it: the text "shutdown"
\* from the host client, or the text "shut_me_down".
IsShutdown(text, client_address) ==
    \/ text = "shutdown" /\ client_address = host_client
    \/ text = "shut_me_down"

\* One datagram that is no PyGaSe package: from_datagram raises
\* ProtocolIDMismatchError, which is ignored, and the text is compared.  On
\* a shutdown the loop ends and connection_tasks.cancel_remaining() cancels
\* the send loops and event loops of the task group.
HandleText(client_address, text) ==
    /\ recvLoop = "running"
    /\ IF IsShutdown(text, client_address)
       THEN /\ recvLoop' = "stopped"
            /\ outcome' = "shutdown"
            /\ sendLoops' = 0
       ELSE /\ outcome' = IF text = "shutdown" THEN "shutdown_refused"
                           ELSE "ignored"
            /\ UNCHANGED <<recvLoop, sendLoops>>
    /\ UNCHANGED <<local_sequence, remote_sequence, ack_bitfield, latency,
                   status, last_recv, pending_acks, event_callback_sequence,
                   events_with_callbacks, event_callbacks, outgoing, incoming,
                   last_client_time_order, now, dispatched, accepted,
                   ackFired, timeoutFired, wire, monitors, congestion,
                   registry,
                   payloads, aside>>

Receive == \E package \in PackageInputs : Recv(package)

ReceiveRemote == \E package \in RemotePackageInputs : Recv(package)

ReceiveEvents == \E package \in EventPackageInputs : Recv(package)

\* ------------------------------------------------------------------------
\* Connection._handle_next_event, one iteration of _event_loop
\* ------------------------------------------------------------------------

HandleNextEvent ==
    /\ incoming # <<>>
    /\ incoming' = Tail(incoming)
    /\ UNCHANGED <<local_sequence, remote_sequence, ack_bitfield, latency,
                   status, last_recv, pending_acks, event_callback_sequence,
                   events_with_callbacks, event_callbacks, outgoing,
                   last_client_time_order, now, sendLoops, recvLoop, outcome,
                   dispatched, accepted, ackFired, timeoutFired, wire,
                   monitors, congestion, registry,
                   payloads, aside>>

\* ------------------------------------------------------------------------
\* The wall clock
\* ------------------------------------------------------------------------

Tick ==
    /\ now < MaxTime
    /\ now' = now + 1
    /\ UNCHANGED <<local_sequence, remote_sequence, ack_bitfield, latency,
                   status, last_recv, pending_acks, event_callback_sequence,
                   events_with_callbacks, event_callbacks, outgoing, incoming,
                   last_client_time_order, sendLoops, recvLoop, outcome,
                   dispatched, accepted, ackFired, timeoutFired, wire,
                   monitors, congestion, registry,
                   payloads, aside>>

\* ------------------------------------------------------------------------
\* Specifications
\* ------------------------------------------------------------------------

Next ==
    \/ Dispatch
    \/ SendLoopIteration
    \/ Receive
    \/ Tick

\* One connection whose peer sends no events: dispatch, send loop, receive
\* path, clock.
Spec == Init /\ [][Next]_vars

NextRemote == ReceiveRemote

\* One connection that sends nothing: the receive path over a wide range of
\* received sequences.
SpecRemote == Init /\ [][NextRemote]_vars

NextEvents ==
    \/ ReceiveEvents
    \/ HandleNextEvent
    \/ Tick

\* One connection that sends nothing, whose peer sends events and its time
\* order: receive path, event loop, clock.
SpecEvents == Init /\ [][NextEvents]_vars

SendLoopCongestion == SendLoop(MaxCongestionSend)

ReceiveAck == \E package \in AckPackageInputs : Recv(package)

\* One evaluation of _congestion_avoidance_monitor: the first one creates
\* the state dict, every one runs _throttling_state_machine at the current
\* time.  The monitor then sleeps for half a second.
CongestionAvoidanceMonitor ==
    /\ monitors > 0
    /\ monitor_runs < MonitorRunsPerSecond
    /\ LET st == IF state = <<>> THEN FreshState(now) ELSE state[1]
           new == ThrottlingStateMachine(quality, package_interval, latency,
                                         now, st)
       IN  /\ quality' = new.quality
           /\ package_interval' = new.package_interval
           /\ state' = <<new.state>>
    /\ monitor_runs' = monitor_runs + 1
    /\ UNCHANGED <<local_sequence, remote_sequence, ack_bitfield, latency,
                   status, last_recv, pending_acks, event_callback_sequence,
                   events_with_callbacks, event_callbacks, outgoing, incoming,
                   last_client_time_order, now, sendLoops, recvLoop, outcome,
                   dispatched, accepted, ackFired, timeoutFired, wire,
                   monitors, registry,
                   payloads, aside>>

\* The wall clock where the monitor is followed: a live monitor, which
\* sleeps for half a second between evaluations, has run in every second.
TickMonitored ==
    /\ now < MaxCongestionTime
    /\ monitors > 0 => monitor_runs > 0
    /\ now' = now + 1
    /\ monitor_runs' = 0
    /\ UNCHANGED <<local_sequence, remote_sequence, ack_bitfield, latency,
                   status, last_recv, pending_acks, event_callback_sequence,
                   events_with_callbacks, event_callbacks, outgoing, incoming,
                   last_client_time_order, sendLoops, recvLoop, outcome,
                   dispatched, accepted, ackFired, timeoutFired, wire,
                   quality, package_interval, state, monitors, registry,
                   payloads, aside>>

NextCongestion ==
    \/ SendLoopCongestion
    \/ ReceiveAck
    \/ CongestionAvoidanceMonitor
    \/ TickMonitored

\* One connection and its congestion monitor: send loop, acknowledgements
\* that move the latency, monitor, clock.  The monitor keeps evaluating and
\* the clock keeps running.
SpecCongestion ==
    /\ InitCongestion
    /\ [][NextCongestion]_vars
    /\ WF_vars(CongestionAvoidanceMonitor)
    /\ WF_vars(TickMonitored)

ReceiveNew ==
    \E client_address \in ClientAddresses, package \in ServerPackageInputs :
        Connect(client_address, package)

ReceiveKnown == \E package \in ServerPackageInputs : Recv(package)

ReceiveAnyText ==
    \E client_address \in ClientAddresses, text \in TextInputs :
        HandleText(client_address, text)

NextServer ==
    \/ ReceiveNew
    \/ ReceiveKnown
    \/ ReceiveAnyText
    \/ SendLoopIteration
    \/ Tick

\* The demultiplexer of a server that starts without clients: packages of
\* two clients (the connection of the second one is followed as a key of
\* server.connections alone), texts, the send loop of the first client's
\* connection, clock.
SpecServer == InitServer /\ [][NextServer]_vars

\* The wall clock, running to limit.
TickTo(limit) ==
    /\ now < limit
    /\ now' = now + 1
    /\ UNCHANGED <<local_sequence, remote_sequence, ack_bitfield, latency,
                   status, last_recv, pending_acks, event_callback_sequence,
                   events_with_callbacks, event_callbacks, outgoing, incoming,
                   last_client_time_order, sendLoops, recvLoop, outcome,
                   dispatched, accepted, ackFired, timeoutFired, wire,
                   monitors, congestion, registry,
                   payloads, aside>>

ConnectClient == \E package \in RevivalPackageInputs : Connect(Client, package)

ReceiveRevival == \E package \in RevivalPackageInputs : Recv(package)

SendLoopRevival == SendLoop(MaxRevivalSend)

TickRevival == TickTo(MaxRevivalTime)

NextRevival ==
    \/ ConnectClient
    \/ ReceiveRevival
    \/ SendLoopRevival
    \/ TickRevival

\* One client of a server that starts without clients, over the life of its
\* connection: creation, send loop, connection timeouts, revivals, clock.
SpecRevival == InitServer /\ [][NextRevival]_vars

\* The latency takes any value between two evaluations of the monitor.
SetLatency ==
    /\ \E l \in LatencyInputs : latency' = l
    /\ UNCHANGED <<local_sequence, remote_sequence, ack_bitfield, status,
                   last_recv, pending_acks, event_callback_sequence,
                   events_with_callbacks, event_callbacks, outgoing, incoming,
                   last_client_time_order, now, sendLoops, recvLoop, outcome,
                   dispatched, accepted, ackFired, timeoutFired, wire,
                   monitors, congestion, registry,
                   payloads, aside>>

\* The wall clock between two evaluations of the monitor, which may come
\* late.
TickThrottle ==
    /\ \E step \in ClockStepInputs :
           /\ now + step <= MaxThrottleClock
           /\ now' = now + step
    /\ monitor_runs' = 0
    /\ UNCHANGED <<local_sequence, remote_sequence, ack_bitfield, latency,
                   status, last_recv, pending_acks, event_callback_sequence,
                   events_with_callbacks, event_callbacks, outgoing, incoming,
                   last_client_time_order, sendLoops, recvLoop, outcome,
                   dispatched, accepted, ackFired, timeoutFired, wire,
                   quality, package_interval, state, monitors, registry,
                   payloads, aside>>

NextThrottle ==
    \/ CongestionAvoidanceMonitor
    \/ SetLatency
    \/ TickThrottle

\* The throttling state machine alone, fed any latency at any time.
SpecThrottle == InitThrottle /\ [][NextThrottle]_vars

DispatchBurst ==
    /\ dispatched < MaxBurst
    /\ \E event \in EventSizeInputs, cb \in BurstCallbackInputs :
           DispatchEvent(event, cb[1], cb[2])

SendLoopBurst == SendLoop(MaxBurstSend)

NextSend ==
    \/ DispatchBurst
    \/ SendLoopBurst

\* One connection that receives nothing: bursts of small and large events
\* are dispatched, the send loop packs and sends them.
SpecSend == Init /\ [][NextSend]_vars

\* package.add_event(event) on the package object.
PackageAdd(event) ==
    /\ Len(pkg.events) < MaxPackageEvents
    /\ pkg' = AddEvent(pkg, event).package
    /\ outcome' = AddEvent(pkg, event).error
    /\ UNCHANGED <<local_sequence, remote_sequence, ack_bitfield, latency,
                   status, last_recv, pending_acks, event_callback_sequence,
                   events_with_callbacks, event_callbacks, outgoing, incoming,
                   last_client_time_order, now, sendLoops, recvLoop,
                   dispatched, accepted, ackFired, timeoutFired, wire,
                   monitors, congestion, registry, payloads, game_state,
                   recv_task, first_read, send_task, callers>>

PackageAddEvent == \E event \in PackageEventInputs : PackageAdd(event)

\* package.to_datagram(), or package.get_bytesize(), on the package object.
PackageToDatagram ==
    /\ pkg' = ToDatagram(pkg).package
    /\ outcome' = ToDatagram(pkg).error
    /\ UNCHANGED <<local_sequence, remote_sequence, ack_bitfield, latency,
                   status, last_recv, pending_acks, event_callback_sequence,
                   events_with_callbacks, event_callbacks, outgoing, incoming,
                   last_client_time_order, now, sendLoops, recvLoop,
                   dispatched, accepted, ackFired, timeoutFired, wire,
                   monitors, congestion, registry, payloads, game_state,
                   recv_task, first_read, send_task, callers>>

NextPackage ==
    \/ PackageAddEvent
    \/ PackageToDatagram

\* One Package object: events are added to it and it is converted to a
\* datagram, in any order.
SpecPackage == Init /\ [][NextPackage]_vars

\* What a step of a thread inside dispatch_event leaves alone.
ThreadFrame ==
    UNCHANGED <<local_sequence, remote_sequence, ack_bitfield, latency,
                status, last_recv, pending_acks, events_with_callbacks,
                incoming, last_client_time_order, now, sendLoops, recvLoop,
                outcome, accepted, ackFired, timeoutFired, wire, monitors,
                congestion, registry, payloads, game_state, recv_task,
                first_read, send_task, pkg>>

\* A thread calls dispatch_event with a callback and reads
\* self._event_callback_sequence, the left operand of += 1.
ThreadLoad(t) ==
    /\ callers[t].pc = "idle"
    /\ callers[t].calls < MaxCalls
    /\ callers' = [callers EXCEPT ![t].pc = "loaded",
                                  ![t].loaded = event_callback_sequence]
    /\ UNCHANGED <<event_callback_sequence, event_callbacks, outgoing,
                   dispatched>>
    /\ ThreadFrame

\* It stores the sum in self._event_callback_sequence.
ThreadStore(t) ==
    /\ callers[t].pc = "loaded"
    /\ event_callback_sequence' = SqnInc(callers[t].loaded)
    /\ callers' = [callers EXCEPT ![t].pc = "stored"]
    /\ UNCHANGED <<event_callbacks, outgoing, dispatched>>
    /\ ThreadFrame

\* callback_sequence = self._event_callback_sequence
ThreadRead(t) ==
    /\ callers[t].pc = "stored"
    /\ callers' = [callers EXCEPT
                      ![t].pc = "read",
                      ![t].callback_sequence = event_callback_sequence]
    /\ UNCHANGED <<event_callback_sequence, event_callbacks, outgoing,
                   dispatched>>
    /\ ThreadFrame

\* self._event_callbacks[self._event_callback_sequence] = {...}
ThreadRegister(t) ==
    /\ callers[t].pc = "read"
    /\ event_callbacks' = MapPut(event_callbacks, event_callback_sequence,
                                 ThreadCallbacks(t))
    /\ callers' = [callers EXCEPT ![t].pc = "registered"]
    /\ UNCHANGED <<event_callback_sequence, outgoing, dispatched>>
    /\ ThreadFrame

\* self._outgoing_event_queue.put((event, callback_sequence)), on a queue
\* that is safe to use from threads, and the return.
ThreadPut(t) ==
    /\ callers[t].pc = "registered"
    /\ outgoing' = Append(outgoing,
                          [event |-> ThreadEvent(t), size |-> SmallEventBytes,
                           callback_sequence |-> callers[t].callback_sequence])
    /\ dispatched' = dispatched + 1
    /\ callers' = [callers EXCEPT ![t].pc = "idle", ![t].calls = @ + 1]
    /\ UNCHANGED <<event_callback_sequence, event_callbacks>>
    /\ ThreadFrame

Load == \E t \in Threads : ThreadLoad(t)

Store == \E t \in Threads : ThreadStore(t)

Read == \E t \in Threads : ThreadRead(t)

Register == \E t \in Threads : ThreadRegister(t)

Put == \E t \in Threads : ThreadPut(t)

NextThreads ==
    \/ Load
    \/ Store
    \/ Read
    \/ Register
    \/ Put

\* Two threads outside the scheduler that call dispatch_event with
\* callbacks, a thread being switched between any two accesses to the
\* connection.
SpecThreads == Init /\ [][NextThreads]_vars

\* ------------------------------------------------------------------------
\* ClientConnection
\* ------------------------------------------------------------------------

\* A merge that takes every update for newer than the state.
RAddAlways(update, game) ==
    [time_order |-> update.time_order, data |-> update.data]

\* GameStateUpdate.__radd__ on a GameState: the update is written over the
\* state, time_order included, if it is newer, and the state is returned.
RAdd(update, game) ==
    IF SqnSub(update.time_order, game.time_order) > 0
    THEN [time_order |-> update.time_order, data |-> update.data]
    ELSE game

\* ServerPackages of the sequences up to last with updates of the given
\* time orders; the data of an update names the package that carried it.
UpdatePackages(last, times) ==
    {[sequence |-> s, ack |-> 0, ack_bitfield |-> Zeros(BitfieldLen),
      events |-> <<>>,
      game_state_update |-> [time_order |-> t, data |-> s]] :
        s \in 1..last, t \in times}

\* ServerPackages the network delivers to the client, in any order and more
\* than once.
ClientPackageInputs == UpdatePackages(MaxClientRecv, {1, 2})

\* Time orders of the updates of the server: early ones, and ones half
\* the range and the whole range later.
UpdateTimeInputs == {1, 2, SqnMax \div 2, SqnMax - 1}

\* ServerPackages with updates early and late in the range of time orders.
UpdatePackageInputs == UpdatePackages(MaxUpdateRecv, UpdateTimeInputs)

\* The client connection when ClientConnection.loop has spawned its three
\* tasks and none of them has run.
InitClient ==
    /\ Constructed
    /\ FreshController
    /\ Untouched
    /\ latency = [num |-> 0, exp |-> 0]
    /\ sendLoops = 1
    /\ host_client = NoClient
    /\ connections = {}

\* ClientConnection._create_next_package, with the sequence just
\* incremented.
ClientCreateNextPackage(sequence) ==
    [sequence |-> sequence,
     ack |-> remote_sequence,
     ack_bitfield |-> ack_bitfield,
     time_order |-> game_state.time_order]

\* ClientPackage.to_datagram: header, time order, event block.
ClientDatagram(package, events) ==
    HeaderToBytearray(package.sequence)
        \o <<Field("time_order", package.time_order, SqnBytes)>>
        \o CreateEventBlock(events)

\* _send_next_package of the client after local_sequence is incremented and
\* the package is created: the events are taken from the queue and the
\* datagram is built and sent.  OverflowError of to_datagram ends the send
\* loop.
ClientSendPackage(package) ==
    LET ids == CallbackIds(DrainedEvents)
        old == IF package.sequence \in DOMAIN events_with_callbacks
               THEN events_with_callbacks[package.sequence] ELSE <<>>
    IN  /\ outgoing' = SubSeq(outgoing, Len(DrainedEvents) + 1, Len(outgoing))
        /\ events_with_callbacks' =
               IF ids = <<>> THEN events_with_callbacks
               ELSE MapPut(events_with_callbacks, package.sequence,
                           old \o ids)
        /\ IF ByteSize(ClientDatagram(package, DrainedEvents)) > MaxSize
           THEN /\ sendLoops' = sendLoops - 1
                /\ UNCHANGED <<wire, payloads, pending_acks>>
           ELSE /\ wire' = Append(wire, package)
                /\ payloads' = Append(payloads, DrainedEvents)
                /\ pending_acks' = PendingPut(pending_acks, package.sequence,
                                              now)
                /\ UNCHANGED sendLoops

\* One iteration of the while loop of _send_loop on the client that is not
\* suspended inside _send_next_package: with an empty outgoing queue there
\* is no await between the increment of local_sequence and sock.sendto, and
\* with events in the queue there is none if queue.get and task_done return
\* without suspending.
ClientSendLoop ==
    /\ sendLoops > 0
    /\ send_task = <<>>
    /\ LET spawned == IF monitors < sendLoops THEN monitors + 1 ELSE monitors
           seq == SqnInc(local_sequence)
       IN  IF TimedOut
           THEN /\ status' = "Disconnected"
                /\ sendLoops' = sendLoops - 1
                /\ monitors' = spawned - 1
                /\ UNCHANGED <<local_sequence, outgoing,
                               events_with_callbacks, pending_acks, wire,
                               payloads>>
           ELSE /\ Len(wire) < MaxClientSend
                /\ local_sequence' = seq
                /\ ClientSendPackage(ClientCreateNextPackage(seq))
                /\ monitors' = spawned
                /\ UNCHANGED status
    /\ state' = IF monitors < sendLoops THEN <<>> ELSE state
    /\ UNCHANGED <<remote_sequence, ack_bitfield, latency, last_recv,
                   event_callback_sequence, event_callbacks, incoming,
                   last_client_time_order, now, recvLoop, outcome, dispatched,
                   accepted, ackFired, timeoutFired, quality,
                   package_interval, monitor_runs, registry, aside>>

\* An iteration of the send loop that is suspended in
\* await self._outgoing_event_queue.get(): local_sequence is incremented
\* and the package is created, nothing is sent yet.
ClientBeginSend ==
    /\ sendLoops > 0
    /\ send_task = <<>>
    /\ ~TimedOut
    /\ outgoing # <<>>
    /\ Len(wire) < MaxClientSend
    /\ local_sequence' = SqnInc(local_sequence)
    /\ send_task' = <<ClientCreateNextPackage(SqnInc(local_sequence))>>
    /\ monitors' = IF monitors < sendLoops THEN monitors + 1 ELSE monitors
    /\ state' = IF monitors < sendLoops THEN <<>> ELSE state
    /\ UNCHANGED <<remote_sequence, ack_bitfield, latency, status, last_recv,
                   pending_acks, event_callback_sequence,
                   events_with_callbacks, event_callbacks, outgoing, incoming,
                   last_client_time_order, now, sendLoops, recvLoop, outcome,
                   dispatched, accepted, ackFired, timeoutFired, wire,
                   quality, package_interval, monitor_runs, registry,
                   payloads, game_state, recv_task, first_read, pkg, callers>>

\* The send loop resumed: the rest of _send_next_package.
ClientFinishSend ==
    /\ sendLoops > 0
    /\ send_task # <<>>
    /\ ClientSendPackage(send_task[1])
    /\ send_task' = <<>>
    /\ UNCHANGED <<local_sequence, remote_sequence, ack_bitfield, latency,
                   status, last_recv, event_callback_sequence,
                   event_callbacks, incoming, last_client_time_order, now,
                   recvLoop, outcome, dispatched, accepted, ackFired,
                   timeoutFired, monitors, congestion, registry, game_state,
                   recv_task, first_read, pkg, callers>>

\* _client_recv_loop leaves its first while loop and calls sock.recv for
\* the first time.
ClientStartReading ==
    /\ recvLoop = "running"
    /\ recv_task = "waiting"
    /\ local_sequence # 0
    /\ recv_task' = "reading"
    /\ first_read' = Len(wire)
    /\ UNCHANGED <<local_sequence, remote_sequence, ack_bitfield, latency,
                   status, last_recv, pending_acks, event_callback_sequence,
                   events_with_callbacks, event_callbacks, outgoing, incoming,
                   last_client_time_order, now, sendLoops, recvLoop, outcome,
                   dispatched, accepted, ackFired, timeoutFired, wire,
                   monitors, congestion, registry, payloads, game_state,
                   send_task, pkg, callers>>

\* ClientConnection._recv: Connection._recv, then the update of the package
\* is added to the game state if that has returned.
ClientRecvPackage(package) ==
    /\ ConnectionRecv(package)
    /\ game_state' = IF outcome' = "ok"
                     THEN RAdd(package.game_state_update, game_state)
                     ELSE game_state
    /\ UNCHANGED <<last_client_time_order, recv_task, first_read, send_task,
                   pkg, callers>>

\* One iteration of the second while loop of _client_recv_loop.
ClientRecv(package) ==
    /\ recvLoop = "running"
    /\ recv_task = "reading"
    /\ ClientRecvPackage(package)
    /\ UNCHANGED <<sendLoops, registry>>

ClientReceive == \E package \in ClientPackageInputs : ClientRecv(package)

\* The application calls dispatch_event, any time after construction.
ClientDispatch ==
    /\ dispatched < MaxClientDispatch
    /\ \E event \in EventSizeInputs : DispatchEvent(event, "none", "none")

\* ClientConnection.loop gets a command from its queue: the three tasks are
\* cancelled and the status is set.
ClientShutdown ==
    /\ recvLoop = "running" \/ sendLoops > 0
    /\ recvLoop' = "cancelled"
    /\ sendLoops' = 0
    /\ status' = "Disconnected"
    /\ UNCHANGED <<local_sequence, remote_sequence, ack_bitfield, latency,
                   last_recv, pending_acks, event_callback_sequence,
                   events_with_callbacks, event_callbacks, outgoing, incoming,
                   last_client_time_order, now, outcome, dispatched, accepted,
                   ackFired, timeoutFired, wire, monitors, congestion,
                   registry, payloads, aside>>

TickClient == TickTo(MaxClientTime)

NextClient ==
    \/ ClientDispatch
    \/ ClientSendLoop
    \/ ClientBeginSend
    \/ ClientFinishSend
    \/ ClientStartReading
    \/ ClientReceive
    \/ ClientShutdown
    \/ TickClient

\* A client connection: its send loop, its receive loop, the application
\* that dispatches events and shuts it down, the server's packages in any
\* order, clock.
SpecClient == InitClient /\ [][NextClient]_vars

ClientReceiveUpdate == \E package \in UpdatePackageInputs : ClientRecv(package)

NextUpdates ==
    \/ ClientSendLoop
    \/ ClientStartReading
    \/ ClientReceiveUpdate

\* A client connection that sends its first package and then receives the
\* server's packages, in any order, with updates of any time order.
SpecUpdates == InitClient /\ [][NextUpdates]_vars

SendLoopLife == SendLoop(MaxLifeSend)

ReceiveLife == \E package \in LifePackageInputs : Recv(package)

ReceiveText == \E text \in TextInputs : HandleText(Client, text)

\* The wall clock, running past the connection timeout.
TickIdle ==
    /\ now < MaxIdleTime
    /\ now' = now + 1
    /\ UNCHANGED <<local_sequence, remote_sequence, ack_bitfield, latency,
                   status, last_recv, pending_acks, event_callback_sequence,
                   events_with_callbacks, event_callbacks, outgoing, incoming,
                   last_client_time_order, sendLoops, recvLoop, outcome,
                   dispatched, accepted, ackFired, timeoutFired, wire,
                   monitors, congestion, registry,
                   payloads, aside>>

NextLife ==
    \/ SendLoopLife
    \/ ReceiveLife
    \/ Tick

\* One connection, fresh or late in its life: sending across the wrap of
\* the sequence numbers, receive path, clock.
SpecLife == InitLife /\ [][NextLife]_vars

NextIdle ==
    \/ SendLoopIteration
    \/ ReceiveLife
    \/ ReceiveText
    \/ TickIdle

\* One connection whose peer may fall silent beyond the connection timeout
\* and come back, and the shutdown of the server.  The send loop keeps
\* iterating (it sleeps for the package interval at most) and the clock keeps
\* running.
SpecIdle ==
    /\ Init
    /\ [][NextIdle]_vars
    /\ WF_vars(SendLoopIteration)
    /\ WF_vars(TickIdle)

\* ------------------------------------------------------------------------
\* What the claims speak of
\* ------------------------------------------------------------------------

\* The sequence k steps before s, for s # 0 and 0 <= k < SqnMax.
SeqBefore(s, k) == IF s - k < 1 THEN s - k + SqnMax ELSE s - k

\* _update_remote_info lets the package through.
Accepts(package) ==
    UpdateRemoteInfo(remote_sequence, ack_bitfield, package.sequence).error
        = "none"

\* The header (ack, bits) acknowledges p as the protocol defines it: p is the
\* ack, or one of the BitfieldLen sequences before it whose bit is set.
Acknowledges(ack, bits, p) ==
    LET d == SqnSub(ack, p)
    IN  \/ d = 0
        \/ 0 < d /\ d <= BitfieldLen /\ bits[d] = 1

\* The callback ids the package sent as p carries.
IdsOf(p) ==
    IF p \in DOMAIN events_with_callbacks
    THEN {events_with_callbacks[p][j] :
              j \in 1..Len(events_with_callbacks[p])}
    ELSE {}

\* The sequences in the pending-ack table.
PendingSet == {pending_acks[i].seq : i \in 1..Len(pending_acks)}

\* The events of the packages sent so far, in the order they were sent.
RECURSIVE Flatten(_)
Flatten(seqs) == IF seqs = <<>> THEN <<>> ELSE Head(seqs) \o Flatten(Tail(seqs))

\* How many times event e was put in a package that was sent.
TimesSent(e) ==
    Cardinality({ij \in {<<i, j>> : i \in DOMAIN payloads, j \in 1..MaxBurst} :
                    /\ ij[2] <= Len(payloads[ij[1]])
                    /\ payloads[ij[1]][ij[2]].event = e})

Queued(e) == \E i \in DOMAIN outgoing : outgoing[i].event = e

\* The datagram of a package that is built anew from a header and events.
FreshDatagram(header, events) ==
    HeaderToBytearray(header) \o CreateEventBlock(events)

\* The state dict the monitor evaluates: its own, or the one it creates in
\* its first run.
MonitorState == IF state = <<>> THEN FreshState(now) ELSE state[1]

\* The monitor runs, the latency is below the threshold, and the clock of
\* the model leaves the time for the switch to good (in this second if the
\* monitor has not run in it yet, in the next one otherwise) and for a
\* milestone more than the throttle time later.
RelaxationDue ==
    /\ monitors > 0
    /\ BelowThreshold(latency)
    /\ (now + (IF monitor_runs = 0 THEN 1 ELSE 2)) * MsPerSecond
           + MonitorState.throttle_time
           <= MaxCongestionTime * MsPerSecond

\* The interval is the good one again, or the latency is not below the
\* threshold any more.
RelaxedOrLatencyUp ==
    \/ package_interval = PackageIntervalGood
    \/ ~BelowThreshold(latency)

\* ------------------------------------------------------------------------
\* Claims
\* ------------------------------------------------------------------------

\* C1: a package whose sequence was accepted before and is at most
\* BitfieldLen steps older than (or equal to) remote_sequence is rejected
\* with DuplicateSequenceError.
C1_DuplicateRejected ==
    [][\A package \in RemotePackageInputs :
          ( /\ Recv(package)
            /\ remote_sequence # 0
            /\ package.sequence \in accepted
            /\ SqnSub(remote_sequence, package.sequence) \in 0..BitfieldLen )
          => outcome' = "DuplicateSequenceError"]_vars

\* C2: bit i of ack_bitfield is 1 exactly when the package with sequence
\* remote_sequence - (i + 1) was accepted (bit i is position i + 1 here).
C2_BitfieldExact ==
    remote_sequence # 0 =>
        \A k \in 1..BitfieldLen :
            (ack_bitfield[k] = 1) <=> (SeqBefore(remote_sequence, k) \in accepted)

\* C3: on receipt of an accepted package, every pending sequence its header
\* acknowledges (the ack itself, or a set bit up to the far end of the
\* bitfield) leaves the pending-ack table and each ack callback it carries
\* is invoked exactly once.
C3_AckResolutionComplete ==
    [][\A package \in PackageInputs :
          (Recv(package) /\ Accepts(package)) =>
              \A p \in PendingSet :
                  Acknowledges(package.ack, package.ack_bitfield, p) =>
                      /\ ~PendingHas(pending_acks', p)
                      /\ \A id \in IdsOf(p) :
                             event_callbacks[id].ack # "none" =>
                                 ackFired'[id] = ackFired[id] + 1]_vars

\* C4: for each callback id, the ack callback and the timeout callback are
\* invoked at most once in total.
C4_TimeoutExclusive ==
    \A id \in 1..MaxDispatch : ackFired[id] + timeoutFired[id] <= 1

\* C4, its case: a callback was invoked, and a second package was received
\* after it.
C4_Witness ==
    /\ \E id \in 1..MaxDispatch : ackFired[id] + timeoutFired[id] = 1
    /\ Cardinality(accepted) = 2
    /\ pending_acks = <<>>

\* C5: a package rejected with DuplicateSequenceError leaves the connection
\* as it was.
C5_RejectedNoSideEffects ==
    [][\A package \in EventPackageInputs :
          (Recv(package) /\ outcome' = "DuplicateSequenceError") =>
              UNCHANGED <<remote_sequence, ack_bitfield, pending_acks,
                          events_with_callbacks, event_callbacks, latency,
                          status, last_recv, incoming,
                          last_client_time_order>>]_vars

\* C6: after a duplicate or stale package the receiving task keeps running.
C6_DuplicateRecovered ==
    outcome \in {"DuplicateSequenceError", "IndexError"} =>
        recvLoop = "running"

\* C7: a package more than BitfieldLen steps older than remote_sequence is
\* rejected with DuplicateSequenceError.
C7_StaleRejected ==
    [][\A package \in RemotePackageInputs :
          ( /\ Recv(package)
            /\ remote_sequence # 0
            /\ SqnSub(remote_sequence, package.sequence) > BitfieldLen )
          => outcome' = "DuplicateSequenceError"]_vars

\* C8: once _recv has resolved a pending sequence, it is no key of
\* events_with_callbacks and none of its callback ids is left in
\* event_callbacks.
C8_RegistryCleanup ==
    [][\A package \in PackageInputs :
          Recv(package) =>
              \A p \in PendingSet :
                  ~PendingHas(pending_acks', p) =>
                      /\ p \notin DOMAIN events_with_callbacks'
                      /\ \A id \in IdsOf(p) :
                             id \notin DOMAIN event_callbacks']_vars

\* C9: on an accepted package that does not acknowledge a pending sequence
\* older than the package timeout, each timeout callback of that sequence is
\* invoked exactly once and the sequence leaves the pending-ack table; and
\* when the receipt completes, no pending entry is older than the timeout.
C9_TimeoutCallback ==
    [][\A package \in PackageInputs :
          (Recv(package) /\ Accepts(package)) =>
              /\ \A p \in PendingSet :
                     ( /\ ~Acknowledges(package.ack, package.ack_bitfield, p)
                       /\ now - PendingTime(pending_acks, p) > PackageTimeout )
                     => /\ ~PendingHas(pending_acks', p)
                        /\ \A id \in IdsOf(p) :
                               event_callbacks[id].timeout # "none" =>
                                   timeoutFired'[id] = timeoutFired[id] + 1
              /\ outcome' = "ok" =>
                     \A i \in 1..Len(pending_acks') :
                         now - pending_acks'[i].time <= PackageTimeout]_vars

\* C10: after a user callback raised during _recv the receiving task keeps
\* running.
C10_CallbackErrorContained ==
    outcome = "CallbackError" => recvLoop = "running"


\* C11: remote_sequence is the modularly newest of the accepted sequences,
\* and no receipt moves it backwards.
C11_RemoteNewest ==
    /\ [](accepted # {} =>
             /\ remote_sequence \in accepted
             /\ \A a \in accepted : SqnSub(remote_sequence, a) >= 0)
    /\ [][remote_sequence # 0 =>
              SqnSub(remote_sequence', remote_sequence) >= 0]_vars

\* C11, its case: sequence 2 was accepted after the newer sequence 3 (the
\* bit of 1 was dropped by the jump from 1 to 3, the bit of 2 is set).
C11_Witness ==
    /\ remote_sequence = 3
    /\ accepted = {1, 2, 3}
    /\ ack_bitfield[1] = 1
    /\ ack_bitfield[2] = 0
    /\ outcome = "ok"

\* C12: a set bit i of ack_bitfield (position i + 1 here) stands for an
\* accepted package with sequence remote_sequence - (i + 1); before anything
\* is received no bit is set.
C12_BitfieldSound ==
    /\ remote_sequence = 0 => ack_bitfield = Zeros(BitfieldLen)
    /\ remote_sequence # 0 =>
           \A k \in 1..BitfieldLen :
               ack_bitfield[k] = 1 => SeqBefore(remote_sequence, k) \in accepted

\* C12, its case: a bit set for sequence 1 was shifted by a jump of two.
C12_Witness ==
    /\ remote_sequence = 4
    /\ accepted = {1, 2, 4}
    /\ ack_bitfield[3] = 1


\* C13: local_sequence changes only by one increment together with the one
\* package sent with the new value; the packages sent carry consecutive
\* sequence numbers ending at local_sequence; every key of the pending-ack
\* table is at or before local_sequence.
C13_SequencePerPackage ==
    /\ [](/\ \A i \in 1..(Len(wire) - 1) :
                 wire[i + 1].sequence = SqnInc(wire[i].sequence)
          /\ wire # <<>> => wire[Len(wire)].sequence = local_sequence
          /\ \A k \in PendingSet : SqnSub(local_sequence, k) >= 0)
    /\ [][(local_sequence' # local_sequence \/ wire' # wire) =>
              /\ local_sequence' = SqnInc(local_sequence)
              /\ Len(wire') = Len(wire) + 1
              /\ wire'[Len(wire')].sequence = local_sequence'
              /\ SubSeq(wire', 1, Len(wire)) = wire]_vars

\* C13, its case: two packages sent across the wrap, both pending.
C13_Witness ==
    /\ Len(wire) = 2
    /\ wire[1].sequence = SqnMax
    /\ wire[2].sequence = 1
    /\ PendingSet = {SqnMax, 1}


\* C17: the iteration of the send loop that finds the connection timed out
\* sets the status to Disconnected and ends the loop, sends nothing, leaves
\* local_sequence alone and raises nothing; and a connection with a live
\* send loop that has received nothing for more than ConnectionTimeout
\* seconds comes to that end, unless a package arrives or the server shuts
\* down first.
C17_ConnectionTimeout ==
    /\ [][(SendLoopIteration /\ now - last_recv > ConnectionTimeout) =>
              /\ status' = "Disconnected"
              /\ sendLoops' = sendLoops - 1
              /\ UNCHANGED <<local_sequence, wire, pending_acks, recvLoop,
                             outcome>>]_vars
    /\ (sendLoops > 0 /\ now - last_recv > ConnectionTimeout) ~>
           \/ status = "Disconnected" /\ sendLoops = 0
           \/ now - last_recv <= ConnectionTimeout
           \/ recvLoop = "stopped"

\* C17, its case: a connection that has sent a package is disconnected by
\* its send loop, the demultiplexer still running.
C17_Witness ==
    /\ status = "Disconnected"
    /\ sendLoops = 0
    /\ now - last_recv > ConnectionTimeout
    /\ Len(wire) = 1
    /\ recvLoop = "running"

\* C18: once the send loop of the connection has ended, no congestion
\* monitor it spawned is still running.
C18_MonitorCancelled == sendLoops = 0 => monitors = 0


\* C14: an evaluation with quality good and latency above the threshold
\* makes the quality bad and the interval the bad interval, doubles the
\* throttle time (up to MaxThrottleTime) exactly if less than the throttle
\* time has passed since the last quality change, sets the last quality
\* change to now and leaves the last good milestone alone.
C14_GoodToBad ==
    [][(CongestionAvoidanceMonitor /\ quality = "good"
            /\ AboveThreshold(latency)) =>
          /\ quality' = "bad"
          /\ package_interval' = PackageIntervalBad
          /\ state'[1].throttle_time =
                 IF (now - MonitorState.last_quality_change) * MsPerSecond
                        < MonitorState.throttle_time
                 THEN Min2(2 * MonitorState.throttle_time, MaxThrottleTime)
                 ELSE MonitorState.throttle_time
          /\ state'[1].last_quality_change = now
          /\ state'[1].last_good_quality_milestone =
                 MonitorState.last_good_quality_milestone]_vars

\* C14, its case: the switch to bad that doubled the throttle time up to its
\* maximum.
C14_Witness ==
    /\ quality = "bad"
    /\ state # <<>>
    /\ state[1].throttle_time = MaxThrottleTime
    /\ state[1].last_quality_change = now

\* C15: an evaluation with quality good, latency not above the threshold and
\* more than the throttle time since the last good milestone makes the
\* interval the good interval, halves the throttle time (down to
\* MinThrottleTime) and sets the last good milestone to now; and while the
\* monitor runs and the latency is below the threshold, the interval comes
\* back to the good interval unless the latency rises first (as far as the
\* clock of the model leaves the time for it).
C15_Relaxation ==
    /\ [][(CongestionAvoidanceMonitor /\ quality = "good"
             /\ ~AboveThreshold(latency)
             /\ (now - MonitorState.last_good_quality_milestone) * MsPerSecond
                    > MonitorState.throttle_time) =>
              /\ quality' = "good"
              /\ package_interval' = PackageIntervalGood
              /\ state'[1].throttle_time =
                     Max2(MonitorState.throttle_time \div 2, MinThrottleTime)
              /\ state'[1].last_good_quality_milestone = now
              /\ state'[1].last_quality_change =
                     MonitorState.last_quality_change]_vars
    /\ RelaxationDue ~> RelaxedOrLatencyUp

\* C15, its case: a throttle time of two seconds halved at the milestone
\* three seconds after the switch to good.
C15_Witness ==
    /\ quality = "good"
    /\ package_interval = PackageIntervalGood
    /\ state # <<>>
    /\ state[1].throttle_time = MinThrottleTime
    /\ state[1].last_quality_change = 0
    /\ state[1].last_good_quality_milestone = 3
    /\ now = 3

\* C16: an evaluation with quality bad and latency below the threshold makes
\* the quality good, sets the last quality change and the last good
\* milestone to now, and leaves the interval and the throttle time alone.
C16_BadToGood ==
    [][(CongestionAvoidanceMonitor /\ quality = "bad"
            /\ BelowThreshold(latency)) =>
          /\ quality' = "good"
          /\ state'[1].last_quality_change = now
          /\ state'[1].last_good_quality_milestone = now
          /\ package_interval' = package_interval
          /\ state'[1].throttle_time = MonitorState.throttle_time]_vars

\* C16, its case: quality good again, the interval still the bad one.
C16_Witness ==
    /\ quality = "good"
    /\ package_interval = PackageIntervalBad
    /\ state # <<>>
    /\ state[1].throttle_time = 2 * MinThrottleTime
    /\ state[1].last_quality_change = now
    /\ state[1].last_good_quality_milestone = now
    /\ now > 0


\* C19: a text datagram ends the demultiplexer exactly if it is
\* "shut_me_down", or "shutdown" from the host client; nothing else ends it;
\* the host client is the client of the first package that parsed, and is
\* never replaced.
C19_ShutdownRouting ==
    /\ [](host_client = NoClient <=> connections = {})
    /\ [][/\ \A c \in ClientAddresses, text \in TextInputs :
               HandleText(c, text) =>
                   recvLoop' = IF \/ text = "shut_me_down"
                                  \/ text = "shutdown" /\ c = host_client
                               THEN "stopped" ELSE "running"
          /\ (recvLoop' = "stopped" /\ recvLoop # "stopped") =>
                 \E c \in ClientAddresses :
                     \/ HandleText(c, "shut_me_down")
                     \/ HandleText(c, "shutdown") /\ c = host_client
          /\ \A c \in ClientAddresses, package \in ServerPackageInputs :
                 (Connect(c, package) /\ connections = {}) =>
                     host_client' = c
          /\ (host_client # NoClient => host_client' = host_client)]_vars

\* C19, its case: two clients are connected, the second one to connect has
\* sent "shutdown", and the demultiplexer is still running.
C19_Witness ==
    /\ connections = ClientAddresses
    /\ host_client = OtherClient
    /\ outcome = "shutdown_refused"
    /\ recvLoop = "running"
    /\ accepted # {}

\* C20: the first package of Client (sequence 1, time order 0) at a server
\* without connections creates the one connection of that address with one
\* send loop; and whatever else happens before that loop sends, its first
\* package has sequence 1, ack 1, an empty bitfield and the whole game state,
\* on which the client's remote_sequence becomes 1.
C20_FirstHandshake ==
    [][/\ \A package \in ServerPackageInputs :
            (Connect(Client, package) /\ connections = {}) =>
                /\ connections' = {Client}
                /\ host_client' = Client
                /\ sendLoops' = 1
       /\ ( /\ SendLoopIteration
            /\ wire = <<>> /\ wire' # <<>>
            /\ accepted = {1}
            /\ last_client_time_order = 0 ) =>
              /\ wire' = <<[sequence |-> 1, ack |-> 1,
                            ack_bitfield |-> Zeros(BitfieldLen),
                            game_state_update |-> "full"]>>
              /\ UpdateRemoteInfo(0, Zeros(BitfieldLen), wire'[1].sequence)
                     = [remote_sequence |-> 1,
                        ack_bitfield |-> Zeros(BitfieldLen),
                        error |-> "none"]]_vars

\* C20, its case: Client connected first, and the server's first package to
\* it is sent while nothing but its first package has arrived from it.
C20_Witness ==
    /\ host_client = Client
    /\ accepted = {1}
    /\ last_client_time_order = 0
    /\ Len(wire) = 1
    /\ wire[1].ack = 1
    /\ wire[1].game_state_update = "full"


\* C21: a package of a known client whose connection is Disconnected adds
\* no connection, respawns the send loop and leaves the connection Connected
\* with a fresh _last_recv; the send loop, while the timeout has not passed
\* again, sends and leaves the status alone.
C21_Revival ==
    [][/\ \A package \in RevivalPackageInputs :
            (Recv(package) /\ status = "Disconnected") =>
                /\ connections' = connections
                /\ sendLoops' = sendLoops + 1
                /\ status' = "Connected"
                /\ now' - last_recv' <= ConnectionTimeout
       /\ (SendLoopRevival /\ ~TimedOut) =>
                /\ Len(wire') = Len(wire) + 1
                /\ status' = status
                /\ sendLoops' = sendLoops]_vars

\* C21, its case: the connection has sent a package and timed out (the
\* monitor of its first send loop is cancelled), and a package has just
\* revived it: its new send loop has not run yet.
C21_Witness ==
    /\ Len(wire) = 1
    /\ monitors = 0
    /\ sendLoops = 1
    /\ status = "Connected"
    /\ last_recv = now
    /\ accepted = {1, 2}
    /\ connections = {Client}


\* C28: a connection never has two live send loops, and the demultiplexer
\* spawns a send loop only for a connection that has none.
C28_OneSendLoop ==
    /\ [](sendLoops <= 1)
    /\ [][sendLoops' > sendLoops =>
              /\ sendLoops = 0
              /\ sendLoops' = 1
              /\ status \in {"Connecting", "Disconnected"}]_vars

\* C28, its case: created, timed out after two packages and revived at the
\* end of the clock, the connection has one send loop, which has not run
\* yet.
C28_Witness ==
    /\ now = MaxRevivalTime
    /\ Len(wire) = MaxRevivalSend
    /\ monitors = 0
    /\ sendLoops = 1
    /\ status = "Connected"
    /\ recvLoop = "running"


\* C27: the throttle time of the monitor's state dict stays between the
\* minimum and the maximum throttle time, and a connection of bad quality
\* sends at the bad interval.
C27_ThrottleBounds ==
    /\ state # <<>> =>
           /\ state[1].throttle_time >= MinThrottleTime
           /\ state[1].throttle_time <= MaxThrottleTime
    /\ quality = "bad" => package_interval = PackageIntervalBad

\* C27, its case: a switch to bad mode has doubled the throttle time up to
\* the maximum, which is less than twice the time before.
C27_Witness ==
    /\ state # <<>>
    /\ state[1].throttle_time = MaxThrottleTime
    /\ state[1].last_quality_change > 0
    /\ quality = "bad"
    /\ package_interval = PackageIntervalBad


\* C23: a package that is sent carries at most EventsPerPackage events; the
\* events sent and the events still queued are in the order of dispatch; and
\* the ids kept in events_with_callbacks under a sequence are callback ids
\* of events in the package that was sent with that sequence.
C23_PacketEvents ==
    /\ \A i \in DOMAIN payloads : Len(payloads[i]) <= EventsPerPackage
    /\ LET order == Flatten(payloads) \o outgoing
       IN  \A i \in 1..(Len(order) - 1) : order[i].event < order[i + 1].event
    /\ \A s \in DOMAIN events_with_callbacks :
           \E i \in DOMAIN wire :
               /\ wire[i].sequence = s
               /\ \A k \in DOMAIN events_with_callbacks[s] :
                      \E j \in DOMAIN payloads[i] :
                          /\ payloads[i][j].callback_sequence # 0
                          /\ payloads[i][j].callback_sequence
                                 = events_with_callbacks[s][k]

\* C24: an event that was dispatched is either still in the outgoing queue
\* and in no package, or in exactly one package that was sent.
C24_NoSilentLoss ==
    \A e \in 1..dispatched :
        \/ Queued(e) /\ TimesSent(e) = 0
        \/ ~Queued(e) /\ TimesSent(e) = 1


\* C25: add_event on a package without a cached datagram takes the event;
\* on a package with one it raises OverflowError and changes nothing if the
\* datagram with the event would be longer than MaxSize, and else leaves a
\* cached datagram that is the datagram of a new package of the same header
\* and events.
C25_OverflowKeepsPackage ==
    /\ [](pkg.cached =>
             /\ pkg.datagram = FreshDatagram(pkg.header, pkg.events)
             /\ ByteSize(pkg.datagram) <= MaxSize)
    /\ [][\A event \in PackageEventInputs :
              PackageAdd(event) =>
                  LET events == Append(pkg.events, event)
                      fresh == FreshDatagram(pkg.header, events)
                  IN  IF ~pkg.cached
                      THEN /\ outcome' = "none"
                           /\ pkg' = NewPackage(pkg.header, events)
                      ELSE IF ByteSize(fresh) > MaxSize
                      THEN /\ outcome' = "OverflowError"
                           /\ pkg' = pkg
                      ELSE /\ outcome' = "none"
                           /\ pkg'.events = events
                           /\ pkg'.cached
                           /\ pkg'.datagram = fresh]_vars

\* C25, its case: a package that was converted to a datagram has refused
\* an event and holds the events and the datagram it held before.
C25_Witness ==
    /\ outcome = "OverflowError"
    /\ pkg.cached
    /\ Len(pkg.events) = 1
    /\ pkg.datagram = FreshDatagram(pkg.header, pkg.events)


\* C26: when no thread is inside dispatch_event, the events in the outgoing
\* queue carry callback ids that differ from one another, and every one of
\* these ids is registered in event_callbacks with the callbacks its event
\* was dispatched with.
C26_ConcurrentDispatch ==
    (\A t \in Threads : callers[t].pc = "idle") =>
        /\ \A i, j \in DOMAIN outgoing :
               i # j =>
                   outgoing[i].callback_sequence # outgoing[j].callback_sequence
        /\ \A i \in DOMAIN outgoing :
               /\ outgoing[i].callback_sequence \in DOMAIN event_callbacks
               /\ \E t \in Threads :
                      /\ outgoing[i].event = ThreadEvent(t)
                      /\ event_callbacks[outgoing[i].callback_sequence]
                             = ThreadCallbacks(t)

\* ------------------------------------------------------------------------
\* The game state of the client
\* ------------------------------------------------------------------------

\* C30: the time order of the client's game state never goes back (in the
\* modular order of time orders), whatever the order the ServerPackages
\* arrive in, and a received update that is not newer than the game state
\* leaves it unchanged.
C30_GameStateOrder ==
    [][/\ SqnSub(game_state'.time_order, game_state.time_order) >= 0
       /\ \A package \in UpdatePackageInputs :
              (/\ ClientRecv(package)
               /\ SqnSub(package.game_state_update.time_order,
                         game_state.time_order) <= 0)
                  => game_state' = game_state]_vars

\* Three packages are received and the game state is the update of the
\* third with time order 1: the others were older, or the time order has
\* gone round its range.
C30_Witness ==
    /\ accepted = {1, 2, 3}
    /\ game_state = [time_order |-> 1, data |-> 3]

\* ------------------------------------------------------------------------
\* The start of the client
\* ------------------------------------------------------------------------

\* C22: the client receive loop reads from the socket only when
\* local_sequence is not 0, and the client has sent its first datagram
\* before its first read.
C22_SendBeforeReceive ==
    recv_task = "reading" => (local_sequence # 0 /\ first_read >= 1)

\* C29: on the client, status Connected implies that the send loop is
\* running.
C29_ConnectedSends ==
    status = "Connected" => sendLoops > 0

====
